---- MODULE Spec2Model ----
(***************************************************************************)
(* Gated-toneburst impedance bridge: the stimulus generator (measStim.py)  *)
(* and the response analyzer (measResp.py), modelled as two batch programs *)
(* that share the setup document <name>.json and the audio container       *)
(* <name>.wav on disk.                                                     *)
(*                                                                         *)
(* A measurement cell is a Python dict: a function from a set of keys to   *)
(* values.  requestFreq is kept in whole Hz, imbalanceIn / imbalanceOut in  *)
(* units of 10^-5 and actualFreq in units of 10^-2.  The planner's float    *)
(* arithmetic is modelled by exact rational arithmetic; the input sets     *)
(* below are those on which both give the same integers.                   *)
(*                                                                         *)
(* The audio container is kept as its frame count and a run-length list of *)
(* segments, each telling whether the left / right samples of its frames   *)
(* are nonzero.  The nonzero samples are those of a stimulus burst, and a   *)
(* correlation sum over a read is taken to be zero exactly when every      *)
(* sample read on that channel is zero.  Between two runs the setup        *)
(* document may be edited from outside once, and the audio container may   *)
(* be replaced by a capture of the stimulus.                               *)
(***************************************************************************)
EXTENDS Integers, Sequences, FiniteSets, TLC

VARIABLES
    disk,          \* the setup document <name>.json
    wav,           \* the audio container <name>.wav
    prog,          \* the program that runs: "none", "stim" or "resp"
    pc,            \* where the run is
    err,           \* the exception that ended the run, "" when none
    theTree,       \* the run's document
    idx,           \* the cell the run's loop is at
    datum,         \* measResp.py: the cursor into the capture
    expectFrames,  \* measResp.py: the frames the document calls for
    actualFrames,  \* measResp.py: the frames the capture has
    ph,            \* measResp.py: which phasors of the cell are nonzero
    reads,         \* history: the reads measResp.py has positioned
    used,          \* history: the geometry each cell was processed with
    diskAtStart,   \* history: the setup document when the run started
    edited         \* whether the setup document was edited from outside

vars == <<disk, wav, prog, pc, err, theTree, idx, datum, expectFrames,
          actualFrames, ph, reads, used, diskAtStart, edited>>

(* ------------------------------ bounds -------------------------------- *)
MaxCells == 2
MaxDelay == 1
MaxCellSamples == 2
MaxWaves == 1
MaxSlack == 1
MaxRate == 9
MaxFreq == 9

(* ------------------------- program constants -------------------------- *)
DefaultSampleRate == 44100
DefaultCellSamples == 5402
DefaultCountWaves == 49
DefaultImbalance == 99712
DefaultStartDelay == 4410
DefaultAmpl == 28000
DefaultRequestFreq == 100
EditFreq == 10

(* ------------------------------ dicts --------------------------------- *)
SetDefault(m, k, v) == IF k \in DOMAIN m THEN m ELSE m @@ (k :> v)

Put(m, k, v) == [x \in (DOMAIN m) \cup {k} |-> IF x = k THEN v ELSE m[x]]

EmptyDict == [x \in {} |-> 0]

(* --------------------------- arithmetic ------------------------------- *)
Abs(x) == IF x < 0 THEN 0 - x ELSE x

\* int (a / b) of Python: the quotient cut toward zero
TruncDiv(a, b) ==
    IF (a >= 0) = (b > 0) THEN Abs(a) \div Abs(b) ELSE 0 - (Abs(a) \div Abs(b))

\* round (a / b) of Python: to the nearest integer, a tie to the even one
RoundDiv(a, b) ==
    LET q == Abs(a) \div Abs(b)
        r == Abs(a) % Abs(b)
        m == IF 2 * r > Abs(b) \/ (2 * r = Abs(b) /\ q % 2 = 1) THEN q + 1 ELSE q
    IN  IF (a >= 0) = (b > 0) THEN m ELSE 0 - m

RECURSIVE Gcd(_, _)
Gcd(a, b) == IF b = 0 THEN Abs(a) ELSE Gcd(b, a % Abs(b))

(* ------------------------ measStim.py: planner ------------------------ *)
StimInitializeDetails(aMeas) ==
    LET a1 == SetDefault(aMeas, "amplL1", DefaultAmpl)
        a2 == SetDefault(a1, "amplR1", DefaultAmpl)
        a3 == SetDefault(a2, "amplL2", DefaultAmpl)
        a4 == SetDefault(a3, "amplR2", DefaultAmpl)
        a5 == SetDefault(a4, "sampleRate", DefaultSampleRate)
        a6 == SetDefault(a5, "imbalanceOut", DefaultImbalance)
        a7 == SetDefault(a6, "requestFreq", DefaultRequestFreq)
    IN  SetDefault(a7, "startDelay", DefaultStartDelay)

\* cellQuartWaves = 4 * int ((reqFreq / 2 - 1) / 4) + 1
CellQuartWaves(reqFreq) == 4 * TruncDiv(reqFreq - 2, 8) + 1

\* cellSamp = int (cellQuartWaves * (1 / reqFreq / 4) * sampRate), reqFreq # 0
PlanCellSamples(sampRate, reqFreq) ==
    TruncDiv(CellQuartWaves(reqFreq) * sampRate, 4 * reqFreq)

\* 1 / reqFreq and cellQuartWaves / cellSamp raise ZeroDivisionError
FillInFails(aMeas) ==
    \/ aMeas["requestFreq"] = 0
    \/ PlanCellSamples(aMeas["sampleRate"], aMeas["requestFreq"]) = 0

\* mutant: a planner that keeps a stored cellSamples and countWaves
FillInDetailsKeepsStored(aMeas) ==
    LET sampRate == aMeas["sampleRate"]
        reqFreq == aMeas["requestFreq"]
        cellQuartWaves == CellQuartWaves(reqFreq)
        cellSamp == PlanCellSamples(sampRate, reqFreq)
        m1 == Put(aMeas, "actualFreq", RoundDiv(100 * cellQuartWaves * sampRate, 4 * cellSamp))
        m2 == SetDefault(m1, "cellSamples", cellSamp)
    IN  SetDefault(m2, "countWaves", cellQuartWaves)

FillInDetails(aMeas) ==
    LET sampRate == aMeas["sampleRate"]
        reqFreq == aMeas["requestFreq"]
        cellQuartWaves == CellQuartWaves(reqFreq)
        cellSamp == PlanCellSamples(sampRate, reqFreq)
        \* actFreq = cellQuartWaves / cellSamp / 4 * sampRate, as a fraction
        actNum == cellQuartWaves * sampRate
        actDen == 4 * cellSamp
        m1 == Put(aMeas, "actualFreq", RoundDiv(100 * actNum, actDen))
        m2 == Put(m1, "cellSamples", cellSamp)
        \* numWaves = round (4 * actFreq * cellSamp / sampRate), the fraction
        \* 4 * cellSamp / actDen in lowest terms
        g == Gcd(4 * cellSamp, actDen)
        numWaves == RoundDiv(actNum * ((4 * cellSamp) \div g), (actDen \div g) * sampRate)
    IN  Put(m2, "countWaves", numWaves)

(* ------------------- measStim.py: stimulus layout -------------------- *)
Seg(n, l, r) == [len |-> n, left |-> l, right |-> r]

\* the frames one cell contributes to the stimulus file: the startup delay,
\* then two bursts of drive A, two of silence and two of drive B
CellSegs(aMeas) ==
    LET delay == aMeas["startDelay"]
        burstSamp == aMeas["cellSamples"] * 4
        \* range (n) is empty for n <= 0
        burst == IF burstSamp > 0 THEN burstSamp ELSE 0
        \* the right channel is scaled by imbalanceOut
        imbal == aMeas["imbalanceOut"] # 0
    IN  << Seg(IF delay > 0 THEN delay ELSE 0, FALSE, FALSE),
           Seg(2 * burst, aMeas["amplL1"] # 0, aMeas["amplR1"] # 0 /\ imbal),
           Seg(2 * burst, FALSE, FALSE),
           Seg(2 * burst, aMeas["amplL2"] # 0, aMeas["amplR2"] # 0 /\ imbal) >>

(* -------------------------- audio container --------------------------- *)
NoWav == [ok |-> FALSE, n |-> 0, segs |-> << >>]

RECURSIVE SegStart(_, _)
SegStart(segs, k) == IF k <= 1 THEN 0 ELSE SegStart(segs, k - 1) + segs[k - 1].len

SegEnd(segs, k) == SegStart(segs, k) + segs[k].len

TotalLen(segs) == SegStart(segs, Len(segs) + 1)

Min(a, b) == IF a < b THEN a ELSE b

Max(a, b) == IF a > b THEN a ELSE b

\* setpos (pos) raises wave.Error outside 0 .. nframes; readframes returns the
\* frames there are, and unpacking an empty read raises ValueError
ReadFails(w, pos, cnt) == pos < 0 \/ pos > w.n \/ Min(cnt, w.n - pos) <= 0

\* whether some sample that readframes (cnt) returns at pos is nonzero on a channel
ReadNonZero(w, pos, cnt, left) ==
    \E k \in 1 .. Len(w.segs) :
        /\ IF left THEN w.segs[k].left ELSE w.segs[k].right
        /\ Max(SegStart(w.segs, k), pos) < Min(SegEnd(w.segs, k), Min(pos + cnt, w.n))

(* ------------------------ measResp.py: analyzer ----------------------- *)
RespInitializeDetails(aMeas) ==
    LET a1 == SetDefault(aMeas, "sampleRate", DefaultSampleRate)
        a2 == SetDefault(a1, "cellSamples", DefaultCellSamples)
        a3 == SetDefault(a2, "countWaves", DefaultCountWaves)
        a4 == SetDefault(a3, "imbalanceIn", DefaultImbalance)
    IN  SetDefault(a4, "startDelay", DefaultStartDelay)

\* mutant: eight cells per measurement instead of three times eight
CellFramesEight(aMeas) == (aMeas["cellSamples"] * 8) + aMeas["startDelay"]

\* one cell's share of expectFrames
CellFrames(aMeas) == (aMeas["cellSamples"] * 3 * 8) + aMeas["startDelay"]

RECURSIVE SumFrames(_, _)
SumFrames(cells, k) ==
    IF k = 0 THEN 0 ELSE SumFrames(cells, k - 1) + CellFrames(cells[k])

ExpectFrames(cells) == SumFrames(cells, Len(cells))

\* mutant: the cosine-aligned read a quarter wave late
CosPosLate(d, cellSamp) == d + cellSamp

\* mutant: the cosine-aligned read ending at the cursor
CosPosEnd(d, cellSamp) == d - 4 * cellSamp

\* where the sine-aligned and the cosine-aligned read of a window start
SinPos(d, cellSamp) == d - cellSamp

CosPos(d, cellSamp) == d

\* mutant: the silent window one burst early
SilentAdvanceOne(burstSamp) == burstSamp

\* mutant: the cursor two bursts past the second window
NextAdvanceTwo(burstSamp) == 2 * burstSamp

\* how far the cursor moves before each window and after the last one
FirstAdvance(delay, burstSamp) == delay + burstSamp

SilentAdvance(burstSamp) == 2 * burstSamp

SecondAdvance(burstSamp) == 2 * burstSamp

NextAdvance(burstSamp) == burstSamp

\* mutant: the ratios against firstL left out
RatioFailsRight(p) == ~p.firstR \/ ~p.secondR

\* the division of two phasors raises ZeroDivisionError on a zero denominator
RatioFails(p) == ~p.firstR \/ ~p.secondR \/ ~p.firstL

NoPhasors == [firstL |-> FALSE, firstR |-> FALSE, secondL |-> FALSE, secondR |-> FALSE]

(* ----------------------------- documents ------------------------------ *)
Absent == [kind |-> "absent", cells |-> << >>]

Invalid == [kind |-> "invalid", cells |-> << >>]

\* a JSON object: one cell
Dict(c) == [kind |-> "dict", cells |-> <<c>>]

\* a JSON array of cells
List(s) == [kind |-> "list", cells |-> s]

AmplKeys == {"amplL1", "amplR1", "amplR2"}

\* what an edit may put into a cell
CellEdits ==
    {(k :> 0) : k \in AmplKeys}
    \cup {("requestFreq" :> EditFreq), ("imbalanceIn" :> 0)}
    \cup {("cellSamples" :> c) : c \in 0 .. MaxCellSamples}
    \cup {("countWaves" :> w) : w \in 1 .. MaxWaves}

\* the cells a list starts with
CellInputs == {("startDelay" :> d) : d \in 0 .. MaxDelay}

Lists == UNION {[1 .. n -> CellInputs] : n \in 0 .. MaxCells}

\* the setup files a behaviour starts with: none, one that is not JSON, a
\* single object (possibly with no keys) or a list
Documents ==
    {Absent, Invalid}
    \cup {Dict(c) : c \in {EmptyDict} \cup CellInputs}
    \cup {List(s) : s \in Lists}

\* try: theTree = json.load (setupFile), except: the defaults stay
Load(initialized) ==
    IF disk.kind \in {"dict", "list"} THEN disk ELSE Dict(initialized)

(* ------------------------------ the runs ------------------------------ *)
Fail(e) == pc' = "failed" /\ err' = e

Start(p) ==
    /\ pc = "idle"
    /\ prog' = p
    /\ diskAtStart' = disk

\* a finished run leaves nothing behind but the two files
Exit ==
    /\ pc \in {"done", "failed", "quit"}
    /\ pc' = "idle" /\ prog' = "none" /\ err' = ""
    /\ theTree' = Absent /\ idx' = 0 /\ datum' = 0
    /\ expectFrames' = 0 /\ actualFrames' = 0
    /\ ph' = NoPhasors /\ reads' = << >> /\ used' = << >>
    /\ diskAtStart' = disk
    /\ UNCHANGED <<disk, wav, edited>>

(* ------------------------------ measStim ------------------------------ *)
\* lines 24-38 and 62-63: the defaults, the setup file, a dict becomes a list
StimLoad ==
    /\ Start("stim")
    /\ theTree' = List(Load(StimInitializeDetails(EmptyDict)).cells)
    /\ idx' = 1
    /\ pc' = "fill"
    /\ UNCHANGED <<disk, wav, err, datum, expectFrames, actualFrames, ph, reads,
                   used, edited>>

\* lines 64-66: one turn of the loop that plans each cell
StimFill ==
    /\ prog = "stim" /\ pc = "fill"
    /\ IF idx > Len(theTree.cells)
         THEN pc' = "open" /\ UNCHANGED <<theTree, idx, err>>
         ELSE LET aMeas == StimInitializeDetails(theTree.cells[idx])
              IN  IF FillInFails(aMeas)
                    THEN /\ Fail("ZeroDivisionError")
                         /\ theTree' = [theTree EXCEPT !.cells[idx] = aMeas]
                         /\ UNCHANGED idx
                    ELSE /\ theTree' = [theTree EXCEPT !.cells[idx] = FillInDetails(aMeas)]
                         /\ idx' = idx + 1
                         /\ UNCHANGED <<pc, err>>
    /\ UNCHANGED <<disk, wav, prog, datum, expectFrames, actualFrames, ph, reads,
                   used, diskAtStart, edited>>

\* lines 78-83: the stimulus file is created; theTree [0] needs a first cell
StimOpen ==
    /\ prog = "stim" /\ pc = "open"
    /\ IF Len(theTree.cells) = 0
         THEN Fail("IndexError") /\ wav' = NoWav /\ UNCHANGED idx
         ELSE /\ wav' = [ok |-> TRUE, n |-> 0, segs |-> << >>]
              /\ idx' = 1
              /\ pc' = "cell"
              /\ UNCHANGED err
    /\ UNCHANGED <<disk, prog, theTree, datum, expectFrames, actualFrames, ph,
                   reads, used, diskAtStart, edited>>

\* lines 85-136: one turn of the loop that writes each cell's frames
StimCell ==
    /\ prog = "stim" /\ pc = "cell"
    /\ IF idx > Len(theTree.cells)
         THEN pc' = "write" /\ UNCHANGED <<wav, idx, used>>
         ELSE LET aMeas == theTree.cells[idx]
                  segs == wav.segs \o CellSegs(aMeas)
              IN  /\ wav' = [ok |-> TRUE, n |-> TotalLen(segs), segs |-> segs]
                  /\ used' = Append(used, [cellSamples |-> aMeas["cellSamples"],
                                           countWaves |-> aMeas["countWaves"]])
                  /\ idx' = idx + 1
                  /\ UNCHANGED pc
    /\ UNCHANGED <<disk, prog, err, theTree, datum, expectFrames, actualFrames, ph,
                   reads, diskAtStart, edited>>

\* lines 142-146: the setup file is written over
StimWrite ==
    /\ prog = "stim" /\ pc = "write"
    /\ disk' = theTree
    /\ pc' = "done"
    /\ UNCHANGED <<wav, prog, err, theTree, idx, datum, expectFrames, actualFrames,
                   ph, reads, used, diskAtStart, edited>>

(* ------------------------------ measResp ------------------------------ *)
\* lines 21-51: the defaults, the setup file (a dict stays a dict), the capture
RespLoad ==
    /\ Start("resp")
    /\ theTree' = Load(RespInitializeDetails(EmptyDict))
    /\ IF wav.ok
         THEN actualFrames' = wav.n /\ pc' = "expect" /\ UNCHANGED err
         ELSE Fail("wave.open") /\ UNCHANGED actualFrames
    /\ UNCHANGED <<disk, wav, idx, datum, expectFrames, ph, reads, used, edited>>

\* lines 53-66: the frames called for; iterating a dict yields its keys, and a
\* str has no setdefault
RespExpect ==
    /\ prog = "resp" /\ pc = "expect"
    /\ IF theTree.kind = "dict" /\ DOMAIN theTree.cells[1] # {}
         THEN Fail("AttributeError") /\ UNCHANGED <<theTree, expectFrames, idx>>
         ELSE LET cells == IF theTree.kind = "dict" THEN << >> ELSE theTree.cells
                  filled == [k \in 1 .. Len(cells) |-> RespInitializeDetails(cells[k])]
                  expect == ExpectFrames(filled)
              IN  /\ theTree' = IF theTree.kind = "dict" THEN theTree
                                ELSE [theTree EXCEPT !.cells = filled]
                  /\ expectFrames' = expect
                  /\ idx' = 1
                  /\ pc' = IF actualFrames < expect THEN "quit"
                           ELSE IF Len(cells) = 0 THEN "write" ELSE "first"
                  /\ UNCHANGED err
    /\ datum' = 0
    /\ UNCHANGED <<disk, wav, prog, actualFrames, ph, reads, used, diskAtStart,
                   edited>>

\* a window: the cursor moves, the sine-aligned and the cosine-aligned read are
\* positioned and read, and the phasor pair is stored in the cell
Window(win, adv, nextpc) ==
    LET aMeas == theTree.cells[idx]
        cellSamp == aMeas["cellSamples"]
        burstSamp == cellSamp * 4
        d == datum + adv
        sp == SinPos(d, cellSamp)
        cp == CosPos(d, cellSamp)
        sinRead == [cell |-> idx, win |-> win, align |-> "sin", at |-> d,
                    pos |-> sp, cnt |-> burstSamp]
        cosRead == [cell |-> idx, win |-> win, align |-> "cos", at |-> d,
                    pos |-> cp, cnt |-> burstSamp]
        l == ReadNonZero(wav, sp, burstSamp, TRUE) \/ ReadNonZero(wav, cp, burstSamp, TRUE)
        r == ReadNonZero(wav, sp, burstSamp, FALSE) \/ ReadNonZero(wav, cp, burstSamp, FALSE)
    IN  /\ datum' = d
        /\ IF ReadFails(wav, sp, burstSamp)
             THEN /\ Fail("wave.Error")
                  /\ reads' = Append(reads, sinRead)
                  /\ UNCHANGED <<theTree, ph>>
             ELSE IF ReadFails(wav, cp, burstSamp)
             THEN /\ Fail("wave.Error")
                  /\ reads' = reads \o <<sinRead, cosRead>>
                  /\ UNCHANGED <<theTree, ph>>
             ELSE IF aMeas["imbalanceIn"] = 0
             THEN \* -2 / burstSamp / imbal
                  /\ Fail("ZeroDivisionError")
                  /\ reads' = reads \o <<sinRead, cosRead>>
                  /\ UNCHANGED <<theTree, ph>>
             ELSE /\ reads' = reads \o <<sinRead, cosRead>>
                  /\ theTree' = [theTree EXCEPT !.cells[idx] =
                                    Put(aMeas, win, [left |-> l, right |-> r])]
                  /\ ph' = IF win = "firstBurst"
                             THEN [ph EXCEPT !.firstL = l, !.firstR = r]
                           ELSE IF win = "secondBurst"
                             THEN [ph EXCEPT !.secondL = l, !.secondR = r]
                           ELSE ph
                  /\ pc' = nextpc
                  /\ UNCHANGED err

\* lines 68-103: the cell's details and its first response burst
RespFirst ==
    /\ prog = "resp" /\ pc = "first"
    /\ LET aMeas == theTree.cells[idx]
       IN  /\ used' = Append(used, [cellSamples |-> aMeas["cellSamples"],
                                    countWaves |-> aMeas["countWaves"]])
           /\ IF aMeas["cellSamples"] = 0
                THEN Fail("ZeroDivisionError") /\ UNCHANGED <<datum, theTree, ph, reads>>
                ELSE Window("firstBurst",
                            FirstAdvance(aMeas["startDelay"], aMeas["cellSamples"] * 4),
                            "silent")
    /\ UNCHANGED <<disk, wav, prog, idx, expectFrames, actualFrames, diskAtStart,
                   edited>>

\* lines 105-129: the silent gap
RespSilent ==
    /\ prog = "resp" /\ pc = "silent"
    /\ Window("silentBurst", SilentAdvance(theTree.cells[idx]["cellSamples"] * 4), "second")
    /\ UNCHANGED <<disk, wav, prog, idx, expectFrames, actualFrames, used,
                   diskAtStart, edited>>

\* lines 131-155: the second response burst
RespSecond ==
    /\ prog = "resp" /\ pc = "second"
    /\ Window("secondBurst", SecondAdvance(theTree.cells[idx]["cellSamples"] * 4), "ratio")
    /\ UNCHANGED <<disk, wav, prog, idx, expectFrames, actualFrames, used,
                   diskAtStart, edited>>

\* lines 157-162: the four ratios, and the cursor moves to the next cell
RespRatio ==
    /\ prog = "resp" /\ pc = "ratio"
    /\ IF RatioFails(ph)
         THEN Fail("ZeroDivisionError") /\ UNCHANGED <<datum, idx, ph>>
         ELSE /\ datum' = datum + NextAdvance(theTree.cells[idx]["cellSamples"] * 4)
              /\ idx' = idx + 1
              /\ ph' = NoPhasors
              /\ pc' = IF idx = Len(theTree.cells) THEN "write" ELSE "first"
              /\ UNCHANGED err
    /\ UNCHANGED <<disk, wav, prog, theTree, expectFrames, actualFrames, reads,
                   used, diskAtStart, edited>>

\* lines 164-168: the setup file is written over
RespWrite ==
    /\ prog = "resp" /\ pc = "write"
    /\ disk' = theTree
    /\ pc' = "done"
    /\ UNCHANGED <<wav, prog, err, theTree, idx, datum, expectFrames, actualFrames,
                   ph, reads, used, diskAtStart, edited>>

(* --------------------------- the environment -------------------------- *)
\* the setup file is edited, replaced or removed between runs, once
Edit ==
    /\ pc = "idle"
    /\ ~edited
    /\ edited' = TRUE
    /\ \/ disk' \in {Absent, Invalid}
       \/ /\ disk.kind \in {"dict", "list"}
          /\ \E k \in 1 .. Len(disk.cells), e \in CellEdits :
                disk' = [disk EXCEPT !.cells[k] =
                            [x \in (DOMAIN @) \cup (DOMAIN e) |->
                                IF x \in DOMAIN e THEN e[x] ELSE @[x]]]
       \/ /\ disk.kind = "list" /\ Len(disk.cells) > 0
          /\ disk' = Dict(disk.cells[1])
    /\ diskAtStart' = disk'
    /\ UNCHANGED <<wav, prog, pc, err, theTree, idx, datum, expectFrames,
                   actualFrames, ph, reads, used>>

\* another program plays the stimulus file and records the response over it:
\* the stimulus as it is or a silent capture, some frames shorter or longer
Record ==
    /\ pc = "idle"
    /\ wav.ok
    /\ wav.n = TotalLen(wav.segs)
    /\ \E s \in (0 - MaxSlack) .. MaxSlack, live \in BOOLEAN :
          /\ wav.n + s >= 0
          /\ s # 0 \/ ~live
          /\ wav' = [ok |-> TRUE, n |-> wav.n + s,
                     segs |-> IF live THEN wav.segs
                              ELSE [k \in 1 .. Len(wav.segs) |->
                                       Seg(wav.segs[k].len, FALSE, FALSE)]]
    /\ UNCHANGED <<disk, prog, pc, err, theTree, idx, datum, expectFrames,
                   actualFrames, ph, reads, used, diskAtStart, edited>>

(* -------------------------- the specification ------------------------- *)
Init ==
    /\ disk \in Documents
    /\ wav = NoWav
    /\ prog = "none" /\ pc = "idle" /\ err = ""
    /\ theTree = Absent /\ idx = 0 /\ datum = 0
    /\ expectFrames = 0 /\ actualFrames = 0
    /\ ph = NoPhasors /\ reads = << >> /\ used = << >>
    /\ diskAtStart = disk
    /\ edited = FALSE

Next ==
    \/ StimLoad \/ StimFill \/ StimOpen \/ StimCell \/ StimWrite
    \/ RespLoad \/ RespExpect \/ RespFirst \/ RespSilent \/ RespSecond
    \/ RespRatio \/ RespWrite
    \/ Exit \/ Edit \/ Record

Spec == Init /\ [][Next]_vars

\* the planner alone: measStim.py run on one-cell documents over a range of
\* sample rates and requested frequencies
PlannerCells ==
    {("sampleRate" :> r) @@ ("requestFreq" :> f) :
        r \in (1 .. MaxRate) \cup {DefaultSampleRate},
        f \in ((0 - MaxFreq) .. MaxFreq) \cup {DefaultRequestFreq}}

InitPlanner ==
    /\ disk \in {List(<<c>>) : c \in PlannerCells}
    /\ wav = NoWav
    /\ prog = "none" /\ pc = "idle" /\ err = ""
    /\ theTree = Absent /\ idx = 0 /\ datum = 0
    /\ expectFrames = 0 /\ actualFrames = 0
    /\ ph = NoPhasors /\ reads = << >> /\ used = << >>
    /\ diskAtStart = disk
    /\ edited = FALSE

NextPlanner == StimLoad \/ StimFill \/ StimOpen \/ StimCell \/ StimWrite \/ Exit

SpecPlanner == InitPlanner /\ [][NextPlanner]_vars

(* ------------------------------- claims ------------------------------- *)
\* the cells the analyzer's loops go over: those of a list (the keys of a dict
\* are no cells)
Measured == IF theTree.kind = "list" THEN theTree.cells ELSE << >>

\* the analyzer has compared the capture's length with the expectation
LengthChecked ==
    /\ prog = "resp"
    /\ \/ pc \in {"quit", "first", "silent", "second", "ratio", "write", "done"}
       \/ pc = "failed" /\ err \in {"ZeroDivisionError", "wave.Error"}

ReadsInside ==
    \A i \in 1 .. Len(reads) :
        0 <= reads[i].pos /\ reads[i].pos + reads[i].cnt <= actualFrames

\* C1 as stated: a capture shorter than expected stops the run before any cell
\* is demodulated; a capture of exactly the expected length lets the run
\* complete with every read inside the capture
C1_AsStated ==
    LengthChecked =>
        /\ actualFrames < expectFrames =>
              pc = "quit" /\ reads = << >> /\ used = << >>
        /\ actualFrames = expectFrames =>
              pc # "failed" /\ ReadsInside

\* C1 amended: as stated, except that a capture of exactly the expected length
\* lets the run complete only if no cell has cellSamples 0, imbalanceIn 0 or a
\* zero denominator phasor; otherwise it stops with ZeroDivisionError, and in
\* every case the reads made lie inside the capture
C1_ShortStopsEqualReadsInside ==
    LengthChecked =>
        /\ actualFrames < expectFrames =>
              pc = "quit" /\ reads = << >> /\ used = << >>
        /\ actualFrames = expectFrames =>
              /\ pc # "quit"
              /\ ReadsInside
              /\ pc = "failed" =>
                    /\ err = "ZeroDivisionError"
                    /\ \/ Measured[idx]["cellSamples"] = 0
                       \/ Measured[idx]["imbalanceIn"] = 0
                       \/ Len(reads) = 6 * idx /\ RatioFails(ph)

C1_Witness ==
    /\ prog = "resp" /\ pc = "done"
    /\ actualFrames = expectFrames
    /\ Len(Measured) = 2
    /\ Len(reads) = 12

\* the frame at which cell k + 1 starts: the sum over the first k cells of
\* startDelay + 6 * burstSamples
RECURSIVE CellStart(_, _)
CellStart(cells, k) ==
    IF k = 0 THEN 0
    ELSE CellStart(cells, k - 1)
         + cells[k]["startDelay"] + 6 * (4 * cells[k]["cellSamples"])

\* the cursor when the window of cell k is read
WindowDatum(cells, k, win) ==
    LET b == 4 * cells[k]["cellSamples"]
        first == CellStart(cells, k - 1) + cells[k]["startDelay"] + b
    IN  IF win = "firstBurst" THEN first
        ELSE IF win = "silentBurst" THEN first + 2 * b
        ELSE first + 4 * b

C2_Position ==
    prog = "resp" =>
        /\ pc = "first" => datum = CellStart(Measured, idx - 1)
        /\ pc = "silent" => datum = WindowDatum(Measured, idx, "firstBurst")
        /\ pc = "second" => datum = WindowDatum(Measured, idx, "silentBurst")
        /\ pc = "ratio" => datum = WindowDatum(Measured, idx, "secondBurst")
        /\ pc \in {"write", "done"} =>
              datum = CellStart(Measured, Len(Measured))

\* C2: the cursor starts at 0, moves per cell by startDelay + burstSamples,
\* 2 * burstSamples, 2 * burstSamples and burstSamples, never decreases, and
\* after the k-th cell is at the sum over the first k cells of
\* startDelay + 6 * burstSamples
C2_CursorAdvance ==
    /\ [](C2_Position)
    /\ [][prog = "resp" /\ prog' = "resp" => datum' >= datum]_vars

C2_Witness ==
    /\ prog = "resp" /\ pc = "first" /\ idx = 2
    /\ datum = Measured[1]["startDelay"] + 24 * Measured[1]["cellSamples"]
    /\ datum > 0

\* C3 as stated: the frames read for a window end at the cursor
C3_AsStated ==
    \A i \in 1 .. Len(reads) : reads[i].pos + reads[i].cnt = reads[i].at

\* C3 amended: the frames read for a window start at the cursor (the cosine
\* read) or cellSamples before it (the sine read), and the cosine read of the
\* second cell's first-drive window starts at 6*B1 + D1 + D2 + B2
C3_WindowStartsAtDatum ==
    prog = "resp" =>
        \A i \in 1 .. Len(reads) :
            LET r == reads[i]
                c == Measured[r.cell]["cellSamples"]
            IN  /\ r.cnt = 4 * c
                /\ r.at = WindowDatum(Measured, r.cell, r.win)
                /\ r.align = "cos" => r.pos = r.at
                /\ r.align = "sin" => r.pos = r.at - c
                /\ r.cell = 2 /\ r.win = "firstBurst" /\ r.align = "cos" =>
                      r.pos = 6 * (4 * Measured[1]["cellSamples"])
                              + Measured[1]["startDelay"]
                              + Measured[2]["startDelay"] + 4 * c

C3_Witness ==
    /\ prog = "resp"
    /\ \E i \in 1 .. Len(reads) :
          /\ reads[i].cell = 2 /\ reads[i].win = "firstBurst" /\ reads[i].align = "cos"
          /\ reads[i].pos > reads[1].pos

RECURSIVE SumOver(_, _, _)
SumOver(cells, k, perCell) ==
    IF k = 0 THEN 0
    ELSE SumOver(cells, k - 1, perCell)
         + cells[k]["startDelay"] + perCell * cells[k]["cellSamples"]

\* C4 as stated: the expected frame count is the sum of startDelay + 8 * cellSamples
C4_AsStated ==
    LengthChecked => expectFrames = SumOver(Measured, Len(Measured), 8)

\* C4 amended: the expected frame count is the sum of startDelay + 24 * cellSamples
C4_ExpectIsSum24 ==
    LengthChecked => expectFrames = SumOver(Measured, Len(Measured), 24)

C4_Witness ==
    /\ LengthChecked
    /\ Len(Measured) = 2
    /\ expectFrames > Measured[1]["startDelay"] + Measured[2]["startDelay"]

Denominators(aMeas) ==
    /\ aMeas["firstBurst"].right
    /\ aMeas["secondBurst"].right
    /\ aMeas["firstBurst"].left

\* C5: a run of the analyzer that fails, for too few frames or for a zero
\* denominator in any cell, leaves the document on disk as it was; the document
\* is written only when no cell had a zero denominator
C5_FailureLeavesDocument ==
    prog = "resp" =>
        /\ pc # "done" => disk = diskAtStart
        /\ pc \in {"write", "done"} =>
              /\ actualFrames >= expectFrames
              /\ \A k \in 1 .. Len(Measured) : Denominators(Measured[k])

C5_Witness ==
    /\ prog = "resp" /\ pc = "failed" /\ err = "ZeroDivisionError"
    /\ idx = 2
    /\ "secondBurst" \in DOMAIN Measured[1]
    /\ RatioFails(ph)
    /\ disk = diskAtStart

\* C6 as stated: with the setup file absent, not JSON or a single object, the
\* run goes on with a document of one cell
C6_AsStated ==
    (prog \in {"stim", "resp"} /\ diskAtStart.kind \in {"absent", "invalid", "dict"}) =>
        /\ err # "AttributeError"
        /\ pc \in {"first", "cell", "write", "done"} => Len(theTree.cells) = 1

\* what the planner gives for a cell's sampleRate and requestFreq
Planned(aMeas) == FillInDetails(StimInitializeDetails(aMeas))

\* the cells of the document a run starts from
StartCells ==
    IF diskAtStart.kind \in {"dict", "list"} THEN diskAtStart.cells ELSE <<EmptyDict>>

\* C7 as stated: the geometry a run uses for a cell is the planner's
C7_AsStated ==
    prog \in {"stim", "resp"} =>
        \A k \in 1 .. Len(used) :
            /\ used[k].cellSamples = Planned(theTree.cells[k])["cellSamples"]
            /\ used[k].countWaves = Planned(theTree.cells[k])["countWaves"]

Stored(aMeas, key, default) == IF key \in DOMAIN aMeas THEN aMeas[key] ELSE default

\* C7 amended: the geometry a stimulus run uses for a cell is the planner's for
\* the cell's sampleRate and requestFreq, whatever is stored; the geometry an
\* analysis run uses is the stored one (5402 and 49 when not stored)
C7_StimPlansRespTrusts ==
    /\ prog = "stim" =>
          \A k \in 1 .. Len(used) :
              LET sr == Stored(StartCells[k], "sampleRate", DefaultSampleRate)
                  f == Stored(StartCells[k], "requestFreq", DefaultRequestFreq)
              IN  /\ used[k].cellSamples = TruncDiv(CellQuartWaves(f) * sr, 4 * f)
                  /\ used[k].countWaves = CellQuartWaves(f)
    /\ prog = "resp" =>
          \A k \in 1 .. Len(used) :
              /\ used[k].cellSamples =
                    Stored(StartCells[k], "cellSamples", DefaultCellSamples)
              /\ used[k].countWaves =
                    Stored(StartCells[k], "countWaves", DefaultCountWaves)

C7_Witness ==
    /\ prog = "stim" /\ pc = "done"
    /\ Len(used) = 2
    /\ \E k \in 1 .. 2 :
          /\ "cellSamples" \in DOMAIN StartCells[k]
          /\ StartCells[k]["cellSamples"] # used[k].cellSamples

\* floor (a / b) for b > 0
FloorDiv(a, b) == a \div b

\* the quarter-wave count as the planner's description gives it
FloorQuartWaves(reqFreq) == 4 * FloorDiv(reqFreq - 2, 8) + 1

Geometry == {"cellSamples", "countWaves", "actualFreq"}

\* C8 as stated: the quarter-wave count is 4 * floor ((requestFreq / 2 - 1) / 4) + 1,
\* and a cell for which it is <= 0 makes the run fail with no geometry stored
\* and no stimulus written
C8_AsStated ==
    (prog = "stim" /\ pc # "idle") =>
        \A k \in 1 .. Len(theTree.cells) :
            LET aMeas == theTree.cells[k]
            IN  /\ (DOMAIN aMeas) \cap Geometry # {} =>
                      aMeas["countWaves"] = FloorQuartWaves(aMeas["requestFreq"])
                /\ ("requestFreq" \in DOMAIN aMeas
                        /\ FloorQuartWaves(aMeas["requestFreq"]) <= 0) =>
                      /\ (DOMAIN aMeas) \cap Geometry = {}
                      /\ pc \notin {"open", "cell", "write", "done"}

\* C9 as stated: for positive sampleRate and requestFreq the planned cell is at
\* most 1/8 second and countWaves is the cell's quarter-wave count
C9_AsStated ==
    (prog = "stim" /\ pc \in {"open", "cell", "write", "done"}) =>
        \A k \in 1 .. Len(theTree.cells) :
            LET aMeas == theTree.cells[k]
            IN  (aMeas["sampleRate"] > 0 /\ aMeas["requestFreq"] > 0) =>
                    /\ 8 * aMeas["cellSamples"] <= aMeas["sampleRate"]
                    /\ aMeas["countWaves"] = FloorQuartWaves(aMeas["requestFreq"])

\* the capture has the frames measStim.py writes for the analyzer's document
CaptureIsStimulus ==
    /\ LengthChecked
    /\ wav.n = TotalLen(wav.segs)
    /\ Len(wav.segs) = 4 * Len(Measured)
    /\ \A k \in 1 .. Len(Measured) :
          LET aMeas == Measured[k]
          IN  /\ aMeas["cellSamples"] >= 1
              /\ aMeas["startDelay"] >= 0
              /\ wav.segs[4 * k - 3].len = aMeas["startDelay"]
              /\ \A j \in 0 .. 2 : wav.segs[4 * k - j].len = 2 * (4 * aMeas["cellSamples"])

\* the segment of the stimulus a window of cell k belongs to
WindowSeg(k, win) ==
    IF win = "firstBurst" THEN 4 * k - 2
    ELSE IF win = "silentBurst" THEN 4 * k - 1
    ELSE 4 * k

\* C10: on the stimulus of its own document every read of a window lies inside
\* that window's frames of that cell, and the frames written are the frames
\* expected
C10_ReadsInsideOwnWindow ==
    CaptureIsStimulus =>
        /\ wav.n = expectFrames
        /\ \A i \in 1 .. Len(reads) :
              LET r == reads[i]
                  sg == WindowSeg(r.cell, r.win)
              IN  /\ SegStart(wav.segs, sg) <= r.pos
                  /\ r.pos + r.cnt <= SegEnd(wav.segs, sg)

C10_Witness ==
    /\ CaptureIsStimulus
    /\ pc = "done"
    /\ Len(Measured) = 2
    /\ Len(reads) = 12
    /\ Measured[1]["startDelay"] # Measured[2]["startDelay"]

====
